---- MODULE Spec2Model ----
(***************************************************************************)
(* Model of anime2.py: a Streamlit page that resolves a typed title to    *)
(* the closest catalog name (difflib.get_close_matches), ranks the row of *)
(* the similarity matrix for that name, and fetches display details for   *)
(* each ranked name from the AniList gateway.                             *)
(*                                                                         *)
(* Strings are sequences of character codes, ordered as their code points *)
(* are: 1 = ' ', 2 = 'A', 3 = 'a', 4 = 'b', 5 = 'x', 6 = 'y', 7 = 'z'.    *)
(* Python indices are 0-based; the model's are 1-based throughout.        *)
(* Scores are small naturals: only their order is ever used by the code.  *)
(* The sidebar (lines 107-163) takes no part in a request and is left out. *)
(***************************************************************************)
EXTENDS Naturals, Integers, Sequences, FiniteSets, TLC

\* ------------------------------------------------------------------ bounds
\* Longest title the modelled user types into the text input.
MaxQueryLen == 3
\* Similarity scores range over 0..MaxScore.
MaxScore == 1
\* Matrix entries farther than MaxBand from the diagonal are 0.
MaxBand == 2

\* ------------------------------------------------------- program constants
\* sorted(...)[1:6]: the slice keeps sorted positions 1..5 (0-based).
SliceFrom == 1
SliceTo == 6
\* [1:6] keeps at most K = 5 entries.
K == 5
\* cutoff=0.6 of get_close_matches, as the fraction CutoffNum / CutoffDen.
CutoffNum == 6
CutoffDen == 10
\* response.status_code == 200
StatusOK == 200

\* The characters the modelled user can type: ' ', 'a', 'b'.
Alphabet == {1, 3, 4}
IsSpace(c) == c = 1

Queries == UNION {[1..n -> Alphabet] : n \in 0..MaxQueryLen}

Scores == 0..MaxScore

Min(x, y) == IF x <= y THEN x ELSE y
Range(s) == {s[k] : k \in DOMAIN s}

\* ------------------------------------------------------------ the datasets
\* Catalogs read from anime_dataset.csv (its index column), as ordered lists
\* of unique names:
\*   <<"ab">>
\*   <<"ab", "ba">>
\*   <<"Abb", "abaxyzx", "bz", "y b">>
\*   <<"x", "y", "xa", "z", "xy", "yz">>
\*   <<"a", "b", "x", "y", "z", "xy", "yz">>
Catalogs ==
  { << <<3, 4>> >>,
    << <<3, 4>>, <<4, 3>> >>,
    << <<2, 4, 4>>, <<3, 4, 3, 5, 6, 7, 5>>, <<4, 7>>, <<6, 1, 4>> >>,
    << <<5>>, <<6>>, <<5, 3>>, <<7>>, <<5, 6>>, <<6, 7>> >>,
    << <<3>>, <<4>>, <<5>>, <<6>>, <<7>>, <<5, 6>>, <<6, 7>> >> }

\* The catalogs the load of mismatched files is explored with.
SmallCatalogs == {c \in Catalogs : Len(c) <= 2}

\* similarity_score.npy as a rows x cols array whose entry (i, j) depends on
\* |i - j| alone: v[|i - j|] within the band, 0 outside it.
Toeplitz(rows, cols, v) ==
  [i \in 1..rows |->
    [j \in 1..cols |->
      LET d == IF i >= j THEN i - j ELSE j - i
      IN  IF d \in DOMAIN v THEN v[d] ELSE 0]]

Matrices(rows, cols) ==
  {Toeplitz(rows, cols, v) : v \in [0..MaxBand -> Scores]}

\* §3 of the data model: the matrix is square, of the catalog's size.
WellFormed(names, matrix) ==
  /\ Len(matrix) = Len(names)
  /\ \A i \in DOMAIN matrix : Len(matrix[i]) = Len(names)

\* ----------------------------------------------------- difflib, as called
\* Length of the common run of a[i..] and b[j..] inside a[..ahi), b[..bhi).
RECURSIVE RunLen(_, _, _, _, _, _)
RunLen(a, i, ahi, b, j, bhi) ==
  IF i < ahi /\ j < bhi /\ a[i] = b[j]
  THEN 1 + RunLen(a, i + 1, ahi, b, j + 1, bhi)
  ELSE 0

\* SequenceMatcher.find_longest_match without junk: the longest block common
\* to a[alo..ahi) and b[blo..bhi); of the longest, the one starting earliest
\* in a, and of those the one starting earliest in b.
FindLongestMatch(a, alo, ahi, b, blo, bhi) ==
  LET starts == {p \in (alo..(ahi - 1)) \X (blo..(bhi - 1)) :
                   RunLen(a, p[1], ahi, b, p[2], bhi) > 0}
  IN  IF starts = {} THEN <<alo, blo, 0>>
      ELSE
        LET size(p) == RunLen(a, p[1], ahi, b, p[2], bhi)
            best == CHOOSE p \in starts :
                      \A q \in starts :
                        \/ size(p) > size(q)
                        \/ /\ size(p) = size(q)
                           /\ \/ p[1] < q[1]
                              \/ p[1] = q[1] /\ p[2] <= q[2]
        IN  <<best[1], best[2], size(best)>>

\* SequenceMatcher.get_matching_blocks, summed: the longest block, then the
\* same to its left and to its right.
RECURSIVE MatchCount(_, _, _, _, _, _)
MatchCount(a, alo, ahi, b, blo, bhi) ==
  LET m == FindLongestMatch(a, alo, ahi, b, blo, bhi)
      i == m[1]
      j == m[2]
      k == m[3]
  IN  IF k = 0 THEN 0
      ELSE k
           + (IF alo < i /\ blo < j
              THEN MatchCount(a, alo, i, b, blo, j) ELSE 0)
           + (IF i + k < ahi /\ j + k < bhi
              THEN MatchCount(a, i + k, ahi, b, j + k, bhi) ELSE 0)

\* _calculate_ratio: 2.0 * matches / length, 1.0 when length is 0; kept as
\* the fraction <<numerator, denominator>>.
CalculateRatio(matches, length) ==
  IF length = 0 THEN <<1, 1>> ELSE <<2 * matches, length>>

\* SequenceMatcher(a = x, b = word).ratio()
Ratio(x, word) ==
  CalculateRatio(MatchCount(x, 1, Len(x) + 1, word, 1, Len(word) + 1),
                 Len(x) + Len(word))

Count(s, c) == Cardinality({k \in DOMAIN s : s[k] = c})

RECURSIVE SumOver(_, _, _)
SumOver(chars, x, word) ==
  IF chars = {} THEN 0
  ELSE LET c == CHOOSE e \in chars : TRUE
       IN  Min(Count(x, c), Count(word, c)) + SumOver(chars \ {c}, x, word)

\* quick_ratio(): the characters in common, as multisets.
QuickRatio(x, word) ==
  CalculateRatio(SumOver(Range(x), x, word), Len(x) + Len(word))

\* real_quick_ratio(): from the lengths alone.
RealQuickRatio(x, word) ==
  CalculateRatio(Min(Len(x), Len(word)), Len(x) + Len(word))

RatioLess(r, s) == r[1] * s[2] < s[1] * r[2]
RatioEq(r, s) == r[1] * s[2] = s[1] * r[2]

\* "... >= cutoff" with a cutoff of 0.5
AtLeastCutoffLoose(r) == r[1] * 2 >= r[2]
\* "... >= cutoff" with cutoff = 0.6
AtLeastCutoff(r) == r[1] * CutoffDen >= CutoffNum * r[2]

\* Python's str ordering: by code point, a proper prefix first.
RECURSIVE StrLess(_, _)
StrLess(s, t) ==
  IF t = <<>> THEN FALSE
  ELSE IF s = <<>> THEN TRUE
  ELSE IF s[1] # t[1] THEN s[1] < t[1]
  ELSE StrLess(Tail(s), Tail(t))

\* The (score, x) tuples get_close_matches collects.
Scored(word, possibilities) ==
  {x \in Range(possibilities) :
     /\ AtLeastCutoff(RealQuickRatio(x, word))
     /\ AtLeastCutoff(QuickRatio(x, word))
     /\ AtLeastCutoff(Ratio(x, word))}

\* Of the names at the top score, the first in catalog order.
LargestFirstInCatalog(word, cands, possibilities) ==
  LET top == {x \in cands :
                \A y \in cands : ~RatioLess(Ratio(x, word), Ratio(y, word))}
      k == CHOOSE k \in DOMAIN possibilities :
             /\ possibilities[k] \in top
             /\ \A l \in DOMAIN possibilities :
                  possibilities[l] \in top => k <= l
  IN  possibilities[k]
\* heapq.nlargest(1, result): the greatest (score, x) tuple.
Largest(word, cands, possibilities) ==
  CHOOSE x \in cands :
    \A y \in cands :
      \/ RatioLess(Ratio(y, word), Ratio(x, word))
      \/ RatioEq(Ratio(y, word), Ratio(x, word)) /\ (y = x \/ StrLess(y, x))

\* ------------------------------------------------------------- the ranking
\* pt.index.get_loc(name): the position of the name in the catalog.
GetLoc(names, name) == CHOOSE k \in DOMAIN names : names[k] = name

\* list(enumerate(row)): the (index, score) pairs, in index order.
Enumerate(row) == [j \in DOMAIN row |-> <<j, row[j]>>]

\* One element put into a list sorted by descending score, behind every
\* element whose score is as high: equal scores keep the order they came in.
RECURSIVE InsertDesc(_, _)
InsertDesc(x, s) ==
  IF s = <<>> THEN <<x>>
  ELSE IF s[1][2] >= x[2] THEN <<s[1]>> \o InsertDesc(x, Tail(s))
  ELSE <<x>> \o s

\* The same, but in front of the elements whose score is equal.
RECURSIVE InsertDescFront(_, _)
InsertDescFront(x, s) ==
  IF s = <<>> THEN <<x>>
  ELSE IF s[1][2] > x[2] THEN <<s[1]>> \o InsertDescFront(x, Tail(s))
  ELSE <<x>> \o s

RECURSIVE SortFrom(_, _, _)
SortFrom(items, k, acc) ==
  IF k > Len(items) THEN acc
  ELSE SortFrom(items, k + 1, InsertDesc(items[k], acc))

RECURSIVE SortFromUnstable(_, _, _)
SortFromUnstable(items, k, acc) ==
  IF k > Len(items) THEN acc
  ELSE SortFromUnstable(items, k + 1, InsertDescFront(items[k], acc))

\* A descending sort that reverses the order of equal scores.
SortedUnstable(items) == SortFromUnstable(items, 1, <<>>)
\* sorted(items, key=lambda x: x[1], reverse=True): stable, descending.
Sorted(items) == SortFrom(items, 1, <<>>)

\* s[lo:hi] of Python, for 0 <= lo <= hi.
PySlice(s, lo, hi) ==
  IF lo >= Min(hi, Len(s)) THEN <<>>
  ELSE SubSeq(s, lo + 1, Min(hi, Len(s)))

\* sorted(...)[1:5]
TopKShort(sorted) == PySlice(sorted, SliceFrom, SliceTo - 1)
\* sorted(...)[1:6]
TopK(sorted) == PySlice(sorted, SliceFrom, SliceTo)

SimilarItems(row) == TopK(Sorted(Enumerate(row)))

\* ------------------------------------------------------------- the gateway
\* What requests.post and the body it returns can be.
Responses ==
  { [raised |-> TRUE,  status |-> 0,        data |-> "none",    media |-> "none"],
    [raised |-> FALSE, status |-> 404,      data |-> "none",    media |-> "none"],
    [raised |-> FALSE, status |-> StatusOK, data |-> "absent",  media |-> "none"],
    [raised |-> FALSE, status |-> StatusOK, data |-> "null",    media |-> "none"],
    [raised |-> FALSE, status |-> StatusOK, data |-> "present", media |-> "null"],
    [raised |-> FALSE, status |-> StatusOK, data |-> "present", media |-> "partial"],
    [raised |-> FALSE, status |-> StatusOK, data |-> "present", media |-> "full"] }

\* fetch_anime_details: "details" (the dict), "None", or the exception that
\* leaves the function.
FetchAnimeDetails(resp) ==
  IF resp.raised THEN "ConnectionError"
  ELSE IF resp.status # StatusOK THEN "None"
  ELSE IF resp.data = "absent" THEN "None"
  ELSE IF resp.data = "null" THEN "AttributeError"
  ELSE IF resp.media = "null" THEN "None"
  ELSE IF resp.media = "partial" THEN "KeyError"
  ELSE "details"

Failed(resp) ==
  ~(~resp.raised /\ resp.status = StatusOK /\ resp.data = "present"
    /\ resp.media = "full")

\* --------------------------------------------------------------- the state
VARIABLES
  loaded,            \* whether load_data returned
  pt,                \* pt.index: the ordered catalog names
  similarity_score,  \* the matrix
  anime_input,       \* the text input's value
  pc,                \* where the script run is
  closest_matches,   \* recommend: the resolver's list
  similar_items,     \* recommend: the ranked (index, score) pairs
  suggestions,       \* recommend: the ranked names
  details,           \* recommend: the details fetched so far
  answers,           \* per gateway call of this run: did it return full data
  messages,          \* what this script run wrote to the page
  trace,             \* the steps this script run performed, in order
  prev               \* what the previous run on this same input computed

vars == <<loaded, pt, similarity_score, anime_input, pc, closest_matches,
          similar_items, suggestions, details, answers, messages, trace,
          prev>>

data == <<loaded, pt, similarity_score>>
locals == <<closest_matches, similar_items, suggestions, details, answers>>

Event(step, arg) == [step |-> step, arg |-> arg]
Msg(kind, arg) == [kind |-> kind, arg |-> arg]

Kinds(msgs) == {msgs[k].kind : k \in DOMAIN msgs}

\* The run's outcome, as the page shows it.
Outcome ==
  IF pc # "idle" \/ messages = <<>> THEN "Pending"
  ELSE IF "Exception" \in Kinds(messages) THEN "Error"
  ELSE IF "PleaseEnter" \in Kinds(messages) THEN "NoInput"
  ELSE IF "NoSimilar" \in Kinds(messages) THEN "NoMatch"
  ELSE "Matched"

Fresh ==
  /\ anime_input = <<>>
  /\ pc = "idle"
  /\ closest_matches = <<>>
  /\ similar_items = <<>>
  /\ suggestions = <<>>
  /\ details = <<>>
  /\ answers = <<>>
  /\ messages = <<>>
  /\ trace = <<>>
  /\ prev = <<>>

\* load_data on files that agree: the matrix is square, of the catalog's size.
Init ==
  /\ loaded = TRUE
  /\ pt \in Catalogs
  /\ similarity_score \in Matrices(Len(pt), Len(pt))
  /\ Fresh

\* load_data on whatever the files hold: a missing file raises and the script
\* stops at line 21; any array of any shape loads.
InitLoad ==
  /\ pt \in SmallCatalogs
  /\ \/ /\ loaded = FALSE
        /\ similarity_score = <<>>
     \/ /\ loaded = TRUE
        /\ \E rows \in (Len(pt) - 1)..(Len(pt) + 1) :
           \E cols \in (Len(pt) - 1)..(Len(pt) + 1) :
             similarity_score \in Matrices(rows, cols)
  /\ Fresh

\* A resolver that remembers: once a run on this input has finished, a tie
\* at the top score goes to the first name in catalog order.
GetCloseMatchesRemembering(word, possibilities) ==
  LET result == Scored(word, possibilities)
  IN  IF result = {} THEN <<>>
      ELSE IF prev # <<>>
           THEN << LargestFirstInCatalog(word, result, possibilities) >>
           ELSE << Largest(word, result, possibilities) >>

\* difflib.get_close_matches(word, possibilities, n=1, cutoff=0.6): a list of
\* at most one name.
GetCloseMatches(word, possibilities) ==
  LET result == Scored(word, possibilities)
  IN  IF result = {} THEN <<>>
      ELSE << Largest(word, result, possibilities) >>

\* ------------------------------------------------------------- the actions
\* Line 87: the user edits the text input; the script reruns with the button
\* not pressed and writes nothing to the main column.
TypeInput ==
  /\ loaded
  /\ pc = "idle"
  /\ \E q \in Queries :
       /\ q # anime_input
       /\ anime_input' = q
  /\ closest_matches' = <<>>
  /\ similar_items' = <<>>
  /\ suggestions' = <<>>
  /\ details' = <<>>
  /\ answers' = <<>>
  /\ messages' = <<>>
  /\ trace' = <<>>
  /\ prev' = <<>>
  /\ UNCHANGED <<data, pc>>

\* Line 91: "if anime_input:", the truth value of a Python str.
Truthy(text) == text # <<>>

\* Lines 90-92 and 104-105: the button is pressed; an input that is not
\* truthy gets the prompt, any other enters recommend.
PressButton ==
  /\ loaded
  /\ pc = "idle"
  /\ closest_matches' = <<>>
  /\ similar_items' = <<>>
  /\ suggestions' = <<>>
  /\ details' = <<>>
  /\ answers' = <<>>
  /\ trace' = <<>>
  /\ IF Truthy(anime_input)
     THEN /\ pc' = "resolve"
          /\ messages' = <<>>
     ELSE /\ pc' = "idle"
          /\ messages' = << Msg("PleaseEnter", <<>>) >>
  /\ UNCHANGED <<data, anime_input, prev>>

\* A notice written only when the matched name differs from the input.
NoticeIfCorrected(word, matched_name) ==
  IF word = matched_name THEN <<>>
  ELSE << Msg("DidYouMean", matched_name) >>
\* Line 60: st.write(f"Did you mean: **{matched_name}**?")
Notice(word, matched_name) == << Msg("DidYouMean", matched_name) >>

\* Lines 56-60 and 73-75, then 93 and 102-103 for the empty list returned.
Resolve ==
  /\ pc = "resolve"
  /\ closest_matches' = GetCloseMatches(anime_input, pt)
  /\ IF closest_matches' # <<>>
     THEN /\ messages' = messages \o Notice(anime_input, closest_matches'[1])
          /\ trace' = Append(trace, Event("resolve", <<>>))
          /\ pc' = "rank"
          /\ prev' = prev
     ELSE /\ messages' = messages \o << Msg("NoSimilar", <<>>),
                                        Msg("NoRecommendations", <<>>) >>
          /\ trace' = Append(trace, Event("resolve", <<>>))
          /\ pc' = "idle"
          /\ prev' = << [matches |-> <<>>, ranked |-> <<>>] >>
  /\ UNCHANGED <<data, anime_input, similar_items, suggestions, details,
                 answers>>

\* An exception leaves recommend: Streamlit shows it and the run is over.
Raise(kind, ranked) ==
  /\ messages' = Append(messages, Msg("Exception", kind))
  /\ pc' = "idle"
  /\ prev' = << [matches |-> closest_matches, ranked |-> ranked] >>

\* Lines 62-65: the row of the matched name, sorted, sliced, and named.
Rank ==
  /\ pc = "rank"
  /\ LET index == GetLoc(pt, closest_matches[1])
     IN  IF index > Len(similarity_score)
         THEN /\ similar_items' = <<>>
              /\ suggestions' = <<>>
              /\ trace' = trace
              /\ Raise("IndexError", <<>>)
         ELSE LET items == SimilarItems(similarity_score[index])
              IN  /\ similar_items' = items
                  /\ trace' = Append(trace, Event("rank", <<>>))
                  /\ IF \E k \in DOMAIN items : items[k][1] > Len(pt)
                     THEN /\ suggestions' = <<>>
                          /\ Raise("IndexError", <<>>)
                     ELSE /\ suggestions' =
                               [k \in DOMAIN items |-> pt[items[k][1]]]
                          /\ pc' = "fetch"
                          /\ UNCHANGED <<messages, prev>>
  /\ details' = <<>>
  /\ answers' = <<>>
  /\ UNCHANGED <<data, anime_input, closest_matches>>

\* "for anime in reversed(suggestions)", after done iterations.
LoopItemReversed(names, done) == names[Len(names) - done]
\* Line 68: "for anime in suggestions", after done iterations.
LoopItem(names, done) == names[done + 1]

\* Lines 68-71: one pass of the loop, with the gateway's answer.
Fetch ==
  /\ pc = "fetch"
  /\ Len(answers) < Len(suggestions)
  /\ \E resp \in Responses :
       LET anime == LoopItem(suggestions, Len(answers))
           anime_details == FetchAnimeDetails(resp)
       IN  /\ trace' = Append(trace, Event("fetch", anime))
           /\ answers' = Append(answers, ~Failed(resp))
           /\ IF anime_details = "details"
              THEN /\ details' = Append(details, anime)
                   /\ UNCHANGED <<pc, messages, prev>>
              ELSE IF anime_details = "None"
              THEN UNCHANGED <<details, pc, messages, prev>>
              ELSE /\ details' = details
                   /\ Raise(anime_details, suggestions)
  /\ UNCHANGED <<data, anime_input, closest_matches, similar_items,
                 suggestions>>

\* Lines 72 and 93-103: the loop is over, the list is returned and shown.
Return ==
  /\ pc = "fetch"
  /\ Len(answers) = Len(suggestions)
  /\ trace' = Append(trace, Event("assemble", <<>>))
  /\ messages' = Append(messages,
                        IF details # <<>>
                        THEN Msg("Recommended", <<>>)
                        ELSE Msg("NoRecommendations", <<>>))
  /\ pc' = "idle"
  /\ prev' = << [matches |-> closest_matches, ranked |-> suggestions] >>
  /\ UNCHANGED <<data, anime_input, locals>>

Next ==
  \/ TypeInput
  \/ PressButton
  \/ Resolve
  \/ Rank
  \/ Fetch
  \/ Return

Spec == Init /\ [][Next]_vars

SpecLoad == InitLoad /\ [][Next]_vars

\* -------------------------------------------------------------- properties
HasStep(step) == \E k \in DOMAIN trace : trace[k].step = step
ResolverRan == HasStep("resolve")
Ranked == HasStep("rank")
Index == GetLoc(pt, closest_matches[1])
Row == similarity_score[Index]
Blank(text) == \A k \in DOMAIN text : IsSpace(text[k])
TopRatio(word, x) ==
  \A y \in Range(pt) : ~RatioLess(Ratio(x, word), Ratio(y, word))

\* C1 (as claimed): the ranked candidates never contain the resolved index
\* itself, whatever the other scores of its row are.
C1_SelfNeverRanked ==
  Ranked => \A k \in DOMAIN similar_items : similar_items[k][1] # Index

\* C2 (as claimed): a run that ranked its candidates and is over has made one
\* gateway call per candidate, returned exactly those whose call gave data,
\* in rank order, and surfaced no error.
C2_FailuresNeverAbort ==
  (Ranked /\ pc = "idle") =>
    /\ Len(answers) = Len(suggestions)
    /\ Outcome # "Error"
    /\ details = SelectSeq(suggestions,
                   LAMBDA name : \E k \in DOMAIN answers :
                                   suggestions[k] = name /\ answers[k])

\* C3 (as claimed): a name is accepted only when its ratio exceeds 0.6 and no
\* name has a higher one; when no ratio exceeds 0.6 the outcome is NoMatch
\* with an empty result list.
C3_AcceptsOnlyAboveCutoff ==
  ResolverRan =>
    /\ closest_matches # <<>> =>
         LET r == Ratio(closest_matches[1], anime_input)
         IN  /\ r[1] * CutoffDen > CutoffNum * r[2]
             /\ TopRatio(anime_input, closest_matches[1])
    /\ (\A y \in Range(pt) :
          LET r == Ratio(y, anime_input)
          IN  ~(r[1] * CutoffDen > CutoffNum * r[2]))
       => /\ closest_matches = <<>>
          /\ Outcome = "NoMatch"
          /\ details = <<>>

\* C3 (amended): a name is accepted only when it is a catalog name whose ratio
\* is at least 0.6 and no name has a higher one; when no ratio reaches 0.6 the
\* outcome is NoMatch with an empty result list.
C3_AcceptsOnlyAtLeastCutoff ==
  ResolverRan =>
    /\ closest_matches # <<>> =>
         LET r == Ratio(closest_matches[1], anime_input)
         IN  /\ closest_matches[1] \in Range(pt)
             /\ r[1] * CutoffDen >= CutoffNum * r[2]
             /\ TopRatio(anime_input, closest_matches[1])
    /\ (\A y \in Range(pt) :
          LET r == Ratio(y, anime_input)
          IN  ~(r[1] * CutoffDen >= CutoffNum * r[2]))
       => /\ closest_matches = <<>>
          /\ Outcome = "NoMatch"
          /\ suggestions = <<>>
          /\ details = <<>>

\* C3 witness: a name accepted at a ratio of exactly 0.6.
C3_Witness ==
  /\ ResolverRan
  /\ closest_matches # <<>>
  /\ LET r == Ratio(closest_matches[1], anime_input)
     IN  r[1] * CutoffDen = CutoffNum * r[2]

\* C4 (as claimed): an empty or whitespace-only input yields NoInput and no
\* resolver, ranker or gateway step.
C4_BlankYieldsNoInput ==
  Blank(anime_input) =>
    /\ pc = "idle"
    /\ trace = <<>>
    /\ messages # <<>> => Outcome = "NoInput"

\* C5: on a catalog of n names the ranker returns exactly min(5, n - 1)
\* candidates, fewer than 5 only when n < 6.
C5_RankerLength ==
  Ranked =>
    /\ Len(similar_items) = Min(K, Len(pt) - 1)
    /\ Len(similar_items) < K => Len(pt) < K + 1

\* C5 witness: a catalog of more than 6 names, ranked to exactly 5.
C5_Witness ==
  /\ Ranked
  /\ Len(pt) > K + 1
  /\ Len(similar_items) = K

\* C6: an input equal to a catalog name resolves to that name; every
\* resolution writes the "Did you mean" notice for the matched name first,
\* before anything else of the run; NoMatch and NoInput never write it.
C6_ExactAndNotice ==
  /\ (ResolverRan /\ anime_input \in Range(pt))
       => closest_matches = <<anime_input>>
  /\ closest_matches # <<>>
       => /\ messages # <<>>
          /\ messages[1] = Msg("DidYouMean", closest_matches[1])
  /\ Outcome \in {"NoMatch", "NoInput"}
       => "DidYouMean" \notin Kinds(messages)

\* C6 witness: a finished Matched run on an input that is a catalog name.
C6_Witness ==
  /\ anime_input \in Range(pt)
  /\ Outcome = "Matched"
  /\ messages[1] = Msg("DidYouMean", anime_input)

Place(row, j) ==
  1 + Cardinality({l \in DOMAIN row :
                     row[l] > row[j] \/ (row[l] = row[j] /\ l < j)})

\* C8: the output is in descending score order, equal scores in ascending
\* index order, and is exactly the entries at places 2..6 of the sorted row.
C8_RankerOrder ==
  Ranked =>
    /\ \A k \in DOMAIN similar_items :
         /\ similar_items[k][1] \in DOMAIN Row
         /\ similar_items[k][2] = Row[similar_items[k][1]]
         /\ Place(Row, similar_items[k][1]) = k + 1
    /\ \A k, l \in DOMAIN similar_items :
         k < l =>
           \/ similar_items[k][2] > similar_items[l][2]
           \/ /\ similar_items[k][2] = similar_items[l][2]
              /\ similar_items[k][1] < similar_items[l][1]
    /\ Len(similar_items) = Min(K, Len(Row) - 1)

\* C8 witness: 5 ranked entries, two of equal score and two of unequal.
C8_Witness ==
  /\ Ranked
  /\ Len(similar_items) = K
  /\ \E k \in DOMAIN similar_items : \E l \in DOMAIN similar_items :
       /\ k < l
       /\ similar_items[k][2] = similar_items[l][2]
  /\ \E k \in DOMAIN similar_items : \E l \in DOMAIN similar_items :
       similar_items[k][2] > similar_items[l][2]

\* The run's steps, when every step of the order has been taken up to done
\* gateway calls.
Steps(done, assembled) ==
  << Event("resolve", <<>>), Event("rank", <<>>) >>
  \o [k \in 1..done |-> Event("fetch", suggestions[k])]
  \o (IF assembled THEN << Event("assemble", <<>>) >> ELSE <<>>)

\* C9: a run's steps are resolve, rank, one gateway call per ranked name in
\* rank order, assemble, in that order; a Matched run has them all; a NoMatch
\* run has resolve alone.
C9_Order ==
  /\ trace # <<>> =>
       \/ trace = << Event("resolve", <<>>) >>
       \/ \E done \in 0..Len(suggestions) : \E assembled \in BOOLEAN :
            /\ assembled => done = Len(suggestions)
            /\ trace = Steps(done, assembled)
  /\ pc = "rank" => trace = << Event("resolve", <<>>) >>
  /\ pc = "fetch" => trace = Steps(Len(answers), FALSE)
  /\ Outcome = "Matched" => trace = Steps(Len(suggestions), TRUE)
  /\ Outcome = "NoMatch" => trace = << Event("resolve", <<>>) >>
  /\ Outcome = "NoInput" => trace = <<>>

\* C9 witness: a Matched run of 5 gateway calls, some of which gave no data.
C9_Witness ==
  /\ Outcome = "Matched"
  /\ Len(suggestions) = K
  /\ details # <<>>
  /\ Len(details) < K

\* C10 (as claimed): with files missing, or a matrix that is not square of
\* the catalog's size, no request is served: no step is performed and no
\* exception reaches the page.
C10_MismatchNeverServed ==
  ~(loaded /\ WellFormed(pt, similarity_score)) =>
    /\ pc = "idle"
    /\ trace = <<>>
    /\ "Exception" \notin Kinds(messages)

====
